---- MODULE Spec2Model ----
(***************************************************************************)
(* Model of the forum backend's authentication core: the users,            *)
(* authentication_keys and threads tables (app_logic.rs setup_database),   *)
(* the app-logic functions create_user, login, authenticate,               *)
(* reverse_key_lookup, get_username_from_uid, get_uid_from_username and    *)
(* create_thread, and the Rocket handlers and request guard of main.rs.    *)
(* Every request opens its own connection to the shared SQLite file, so    *)
(* requests interleave at the granularity of one SQL statement. A clock    *)
(* reading belongs to the statement that follows it. Faults of the store   *)
(* itself (I/O errors, a locked database) are not modelled. Foreign keys   *)
(* never reject an INSERT here: every user_id bound comes from a row of    *)
(* users, and no row is ever deleted.                                      *)
(***************************************************************************)
EXTENDS Integers, Sequences, FiniteSets, Bags, TLC

VARIABLES users, authentication_keys, threads, now, ticks, inflight, issued, registered

vars == <<users, authentication_keys, threads, now, ticks, inflight, issued, registered>>

(***************************************************************************)
(* Bounds of the model.                                                    *)
(***************************************************************************)
\* rows inserted, clock advances observed and inserts pending, in total
MaxOps == 4
\* clock resolution: clock ticks per second (chrono counts nanoseconds)
TicksPerSecond == 2
\* the budget of the runs of SpecAttribution
MaxOpsAttribution == 6
\* the largest id whose text form is converted back
MaxUid == 25

(***************************************************************************)
(* Program constants.                                                      *)
(***************************************************************************)
\* Duration::days(10) in login
SessionDays == 10

\* Duration::days(10), in clock ticks
SessionTTL == SessionDays * 86400 * TicksPerSecond

(***************************************************************************)
(* Inputs of the requests.                                                 *)
(***************************************************************************)
Usernames == {"alice", "bob"}
Emails == {"a@x.com", "b@x.com"}
PasswordList == <<"pw123", "wrongpw">>
Passwords == {PasswordList[i] : i \in DOMAIN PasswordList}
\* outcomes of the salt generator of create_user
SaltList == <<"saltAAAAAA", "saltBBBBBB">>
Salts == {SaltList[i] : i \in DOMAIN SaltList}
\* outcomes of the token generator of login (nothing de-duplicates them)
Tokens == {"tokA", "tokB"}
Handlers == {"get_threads", "get_comments", "create_thread"}
\* amounts by which the wall clock is seen to advance between two statements
Deltas == {SessionTTL - 1, SessionTTL}

(***************************************************************************)
(* Option and Result values.                                               *)
(***************************************************************************)
None == <<>>
Some(x) == <<x>>
Ok(v) == [ok |-> TRUE, val |-> v]
\* Err(rusqlite::Error::...)
Err == [ok |-> FALSE, panic |-> FALSE]
\* panic!(...)
Panic == [ok |-> FALSE, panic |-> TRUE]

(***************************************************************************)
(* Conversions.                                                            *)
(***************************************************************************)
\* isize::to_string: the decimal digits of a non-negative integer
RECURSIVE to_string(_)
to_string(n) == IF n < 10 THEN <<n>> ELSE Append(to_string(n \div 10), n % 10)

\* SQLite INTEGER affinity applied to a TEXT value that holds decimal digits
RECURSIVE IntegerAffinity(_)
IntegerAffinity(s) ==
    IF Len(s) = 0 THEN 0
    ELSE 10 * IntegerAffinity(SubSeq(s, 1, Len(s) - 1)) + s[Len(s)]

\* a timestamp text in another format: whole seconds alone
to_seconds_text(t) == <<t \div TicksPerSecond>>

\* DateTime::to_rfc3339: whole seconds and the fraction of a second
to_rfc3339(t) == <<t \div TicksPerSecond, t % TicksPerSecond>>

\* DateTime::parse_from_rfc3339
parse_from_rfc3339(s) ==
    IF Len(s) = 2 /\ s[1] >= 0 /\ s[2] \in 0..(TicksPerSecond - 1)
    THEN Ok(s[1] * TicksPerSecond + s[2])
    ELSE Err

\* DateTime::signed_duration_since
signed_duration_since(a, b) == a - b

\* Duration::num_seconds: the whole seconds of a duration, rounded towards zero
num_seconds(d) ==
    IF d >= 0 THEN d \div TicksPerSecond ELSE 0 - ((0 - d) \div TicksPerSecond)

(***************************************************************************)
(* argon2.                                                                 *)
(***************************************************************************)
IndexOf(list, x) == CHOOSE i \in DOMAIN list : list[i] = x

\* the raw hash of a password under a salt, injective on the modelled inputs
Argon2Raw(password, salt) ==
    1000 + 10 * IndexOf(PasswordList, password) + IndexOf(SaltList, salt)

\* argon2::hash_encoded: the encoded string embeds the variant, the salt and the hash
hash_encoded(password, salt) == <<"argon2i", salt, Argon2Raw(password, salt)>>

\* argon2::verify_encoded: Err on a string that does not decode
verify_encoded(encoded, password) ==
    IF Len(encoded) = 3 /\ encoded[2] \in Salts
    THEN Ok(Argon2Raw(password, encoded[2]) = encoded[3])
    ELSE Err

(***************************************************************************)
(* The store.                                                              *)
(***************************************************************************)
\* a rowid that repeats the largest rowid in use
NextRowIdOfLastRow(table) == IF table = <<>> THEN 1 ELSE Len(table)

\* rowid of the next row of a table from which nothing is deleted
NextRowId(table) == Len(table) + 1

\* the comments table: no mounted route inserts a comment
comments == <<>>

(***************************************************************************)
(* app_logic.rs                                                            *)
(***************************************************************************)
\* not_expired_flag with the comparison taken as <= 0
not_expired_flag_inclusive(expiration_datetime, t) ==
    num_seconds(signed_duration_since(t, expiration_datetime)) <= 0

\* the expiration check of one matching row: not_expired_flag
not_expired_flag(expiration_datetime, t) ==
    num_seconds(signed_duration_since(t, expiration_datetime)) < 0

\* valid_key_encountered initialised to true
InitiallyValid == TRUE

\* the value valid_key_encountered has before the first row
InitialValidKeyEncountered == FALSE

\* the loop of authenticate returning at the first matching row
AuthenticateFirstRowOnly(rows, t, valid_key_encountered) ==
    IF rows = <<>> THEN Ok(valid_key_encountered)
    ELSE LET expiration_datetime == parse_from_rfc3339(Head(rows).expiration)
         IN  IF ~expiration_datetime.ok THEN Panic
             ELSE Ok(not_expired_flag(expiration_datetime.val, t))

\* the query_map closure run over the matching rows in rowid order
RECURSIVE AuthenticateRows(_, _, _)
AuthenticateRows(rows, t, valid_key_encountered) ==
    IF rows = <<>> THEN Ok(valid_key_encountered)
    ELSE LET expiration_datetime == parse_from_rfc3339(Head(rows).expiration)
         IN  IF ~expiration_datetime.ok THEN Panic
             ELSE AuthenticateRows(Tail(rows), t,
                      valid_key_encountered
                          \/ not_expired_flag(expiration_datetime.val, t))

\* authenticate(conn, auth_key) called when the clock reads t
authenticate(keys, auth_key, t) ==
    AuthenticateRows(SelectSeq(keys, LAMBDA r : r.authentication_key = auth_key),
                     t, InitialValidKeyEncountered)

\* reverse_key_lookup selecting only the rows that have not expired
reverse_key_lookup_unexpired(keys, auth_key) ==
    LET rows == SelectSeq(keys, LAMBDA r :
                    /\ r.authentication_key = auth_key
                    /\ not_expired_flag(parse_from_rfc3339(r.expiration).val, now))
    IN  IF rows = <<>> THEN Err ELSE Ok(to_string(Head(rows).user_id))

\* reverse_key_lookup(conn, auth_key): the user_id of the first matching row
reverse_key_lookup(keys, auth_key) ==
    LET rows == SelectSeq(keys, LAMBDA r : r.authentication_key = auth_key)
    IN  IF rows = <<>> THEN Err ELSE Ok(to_string(Head(rows).user_id))

\* get_username_from_uid without its WHERE clause
get_username_from_uid_unfiltered(table, unique_id) ==
    IF table = <<>> THEN Err ELSE Ok(Head(table).username)

\* get_username_from_uid(conn, unique_id): unique_id is bound as TEXT
get_username_from_uid(table, unique_id) ==
    LET rows == SelectSeq(table, LAMBDA r : r.unique_id = IntegerAffinity(unique_id))
    IN  IF rows = <<>> THEN Err ELSE Ok(Head(rows).username)

\* get_uid_from_username(conn, username)
get_uid_from_username(table, username) ==
    LET rows == SelectSeq(table, LAMBDA r : r.username = username)
    IN  IF rows = <<>> THEN Err ELSE Ok(to_string(Head(rows).unique_id))

\* what the arm Ok(val) of the match on verify_encoded leaves in matching_uid
MatchingUidOnOk(user, val, matching_uid) == Some(to_string(user.unique_id))

\* the loop of login over the users that match the username: matching_uid
RECURSIVE LoginMatch(_, _, _)
LoginMatch(rows, password, matching_uid) ==
    IF rows = <<>> THEN matching_uid
    ELSE LET user == Head(rows)
             verified == verify_encoded(user.password_hash, password)
         IN  LoginMatch(Tail(rows), password,
                 IF verified.ok
                 THEN MatchingUidOnOk(user, verified.val, matching_uid)
                 ELSE matching_uid)

\* expiration_date of login when the clock reads t
expiration_date(t) == t + SessionTTL

\* the INSERT of login binding the clock reading in place of expiration_date
KeyRowStoringNow(keys, unique_id, authentication_key, t) ==
    [unique_id |-> NextRowId(keys),
     user_id |-> IntegerAffinity(unique_id),
     authentication_key |-> authentication_key,
     expiration |-> to_rfc3339(t)]

\* the row login inserts into authentication_keys
KeyRow(keys, unique_id, authentication_key, t) ==
    [unique_id |-> NextRowId(keys),
     user_id |-> IntegerAffinity(unique_id),
     authentication_key |-> authentication_key,
     expiration |-> to_rfc3339(expiration_date(t))]

\* the pair login returns
LoginReturn(authentication_key, t) ==
    <<authentication_key, to_rfc3339(expiration_date(t))>>

\* users with UNIQUE on username alone
UsersUniqueOkUsernameOnly(table, username, email) ==
    \A i \in DOMAIN table : table[i].username # username

\* users with UNIQUE on email alone
UsersUniqueOkEmailOnly(table, username, email) ==
    \A i \in DOMAIN table : table[i].email # email

\* the UNIQUE constraints of users
UsersUniqueOk(table, username, email) ==
    \A i \in DOMAIN table : table[i].username # username /\ table[i].email # email

\* the INSERT of create_user binding the password in place of the salt
UserRowBindingPassword(table, username, email, password, salt, t) ==
    [unique_id |-> NextRowId(table),
     username |-> username,
     email |-> email,
     password_hash |-> hash_encoded(password, salt),
     password_salt |-> password,
     registration_datetime |-> to_rfc3339(t)]

\* the row create_user inserts into users
UserRow(table, username, email, password, salt, t) ==
    [unique_id |-> NextRowId(table),
     username |-> username,
     email |-> email,
     password_hash |-> hash_encoded(password, salt),
     password_salt |-> salt,
     registration_datetime |-> to_rfc3339(t)]

\* the row create_thread inserts into threads
ThreadRow(table, unique_user_id, t) ==
    [unique_id |-> NextRowId(table),
     title |-> "title",
     creator_uid |-> IntegerAffinity(unique_user_id),
     creation_timestamp |-> to_rfc3339(t),
     tag |-> "tag",
     content |-> "content"]

(***************************************************************************)
(* State.                                                                  *)
(*   users, authentication_keys, threads: the tables, in rowid order       *)
(*   now: the wall clock, in ticks; ticks: how often it has advanced       *)
(*   inflight: the requests that are between two of their statements, each *)
(*     with its locals (a bag: two workers may hold equal requests); a     *)
(*     guarded request also records the clock reading of its guard         *)
(*   issued: per row of authentication_keys, the login that inserted it    *)
(*   registered: the (username, password) pairs of successful registers    *)
(***************************************************************************)
Init ==
    /\ users = <<>>
    /\ authentication_keys = <<>>
    /\ threads = <<>>
    /\ now = 0
    /\ ticks = 0
    /\ inflight = EmptyBag
    /\ issued = <<>>
    /\ registered = {}

\* the requests in flight, without their multiplicity
InFlight == BagToSet(inflight)

\* logins that have selected their user and not yet inserted their key
PendingLogins == {r \in InFlight : r.kind = "login"}

\* guarded requests whose handler has not yet run
PendingBodies == {r \in InFlight : r.kind = "body"}

\* a request enters, and leaves, the requests in flight
Enter(r) == inflight (+) SetToBag({r})
Leave(r) == inflight (-) SetToBag({r})

\* what counts against MaxOps
Ops ==
    Len(users) + Len(authentication_keys) + Len(threads) + ticks + BagCardinality(inflight)

(***************************************************************************)
(* main.rs register: create_user, one INSERT. The handler answers          *)
(* success = true when create_user returned Ok and success = false on Err. *)
(***************************************************************************)
\* create_user: Ok(true), or the Err of the INSERT
create_user(table, username, email) ==
    IF UsersUniqueOk(table, username, email) THEN Ok(TRUE) ELSE Err

\* the handler register: the value of success in the JSON it answers
register_handler(table, username, email) ==
    LET result == create_user(table, username, email)
    IN  Ok(IF result.ok THEN TRUE ELSE FALSE)

Register(username, email, password, salt) ==
    /\ IF create_user(users, username, email).ok
       THEN /\ users' = Append(users, UserRow(users, username, email, password, salt, now))
            /\ registered' = registered \cup {<<username, password>>}
       ELSE UNCHANGED <<users, registered>>
    /\ UNCHANGED <<authentication_keys, threads, now, ticks, inflight, issued>>

(***************************************************************************)
(* main.rs login, first statement: the SELECT on users and the loop that   *)
(* verifies the password. With matching_uid = None login returns Err and   *)
(* the handler panics; nothing is stored.                                  *)
(***************************************************************************)
\* matching_uid initialised to a uid in place of None
login_matching_uid_defaulted(table, username, password) ==
    LoginMatch(SelectSeq(table, LAMBDA r : r.username = username), password,
               Some(to_string(0)))

\* matching_uid after the loop of login
login_matching_uid(table, username, password) ==
    LoginMatch(SelectSeq(table, LAMBDA r : r.username = username), password, None)

\* app_logic login at its match on matching_uid: the uid to bind, or
\* Err(rusqlite::Error::InvalidQuery) for None
login(table, username, password) ==
    LET matching_uid == login_matching_uid(table, username, password)
    IN  IF matching_uid = None THEN Err ELSE Ok(matching_uid[1])

\* the handler login: panic! on the Err of app_logic login
login_handler(table, username, password) ==
    LET authentication_key == login(table, username, password)
    IN  IF authentication_key.ok THEN authentication_key ELSE Panic

LoginSelect(username, password) ==
    /\ LET matching_uid == login_matching_uid(users, username, password)
       IN  inflight' = IF matching_uid = None
                       THEN inflight
                       ELSE Enter([kind |-> "login", username |-> username,
                                   password |-> password,
                                   matching_uid |-> matching_uid[1]])
    /\ UNCHANGED <<users, authentication_keys, threads, now, ticks, issued, registered>>

(***************************************************************************)
(* main.rs login, second statement: the token and the expiration are made  *)
(* and the INSERT into authentication_keys runs; the pair is returned.     *)
(***************************************************************************)
\* the INSERT of login replacing the earlier keys of the user
LoginInsertSingleSession(r, authentication_key) ==
    /\ r \in PendingLogins
    /\ authentication_keys' = Append(
           SelectSeq(authentication_keys,
                     LAMBDA row : row.user_id # IntegerAffinity(r.matching_uid)),
           KeyRow(authentication_keys, r.matching_uid, authentication_key, now))
    /\ issued' = Append(issued, [username |-> r.username,
                                 password |-> r.password,
                                 returned |-> LoginReturn(authentication_key, now),
                                 at |-> now])
    /\ inflight' = Leave(r)
    /\ UNCHANGED <<users, threads, now, ticks, registered>>

LoginInsert(r, authentication_key) ==
    /\ r \in PendingLogins
    /\ authentication_keys' = Append(authentication_keys,
           KeyRow(authentication_keys, r.matching_uid, authentication_key, now))
    /\ issued' = Append(issued, [username |-> r.username,
                                 password |-> r.password,
                                 returned |-> LoginReturn(authentication_key, now),
                                 at |-> now])
    /\ inflight' = Leave(r)
    /\ UNCHANGED <<users, threads, now, ticks, registered>>

(***************************************************************************)
(* main.rs AuthenticationKey::from_request, the guard of the protected     *)
(* handlers. header is the x-auth-key header: None or Some(key). Only the  *)
(* outcome Success lets Rocket call the handler.                           *)
(***************************************************************************)
\* the Outcome taking every Ok of authenticate for Success
GuardOutcomeAnyOk(auth) ==
    IF auth.ok THEN "Success"
    ELSE IF auth.panic THEN "panic" ELSE "InternalServerError"

\* the Outcome for an authenticate result
GuardOutcome(auth) ==
    IF auth.ok
    THEN IF auth.val THEN "Success" ELSE "Unauthorized"
    ELSE IF auth.panic THEN "panic" ELSE "InternalServerError"

\* from_request for a header when the clock reads t
from_request(keys, header, t) ==
    IF header = None THEN "Unauthorized"
    ELSE GuardOutcome(authenticate(keys, header[1], t))

Guard(handler, header) ==
    /\ inflight' = IF from_request(authentication_keys, header, now) = "Success"
                   THEN Enter([kind |-> "body", handler |-> handler,
                               key_content |-> header[1],
                               authenticated_at |-> now])
                   ELSE inflight
    /\ UNCHANGED <<users, authentication_keys, threads, now, ticks, issued, registered>>

(***************************************************************************)
(* main.rs get_threads and get_comments: the bodies read one table.        *)
(***************************************************************************)
GetThreadsBody(r) ==
    /\ r \in PendingBodies
    /\ r.handler = "get_threads"
    /\ inflight' = Leave(r)
    /\ UNCHANGED <<users, authentication_keys, threads, now, ticks, issued, registered>>

GetCommentsBody(r) ==
    /\ r \in PendingBodies
    /\ r.handler = "get_comments"
    /\ inflight' = Leave(r)
    /\ UNCHANGED <<users, authentication_keys, threads, now, ticks, issued, registered>>

(***************************************************************************)
(* main.rs create_thread: reverse_key_lookup, get_username_from_uid and    *)
(* app_logic create_thread; an Err of any of them panics.                  *)
(***************************************************************************)
\* app_logic create_thread: Ok(the row to insert) or Err
create_thread(table, username, t) ==
    LET unique_user_id == get_uid_from_username(users, username)
    IN  IF unique_user_id.ok THEN Ok(ThreadRow(table, unique_user_id.val, t)) ELSE Err

\* the handler create_thread for a guarded key: Ok(the row to insert) or Panic
create_thread_handler(key_content, t) ==
    LET unique_user_id == reverse_key_lookup(authentication_keys, key_content)
        username == IF unique_user_id.ok
                    THEN get_username_from_uid(users, unique_user_id.val)
                    ELSE Err
        create_result == IF username.ok
                         THEN create_thread(threads, username.val, t)
                         ELSE Err
    IN  IF create_result.ok THEN create_result ELSE Panic

CreateThreadBody(r) ==
    /\ r \in PendingBodies
    /\ r.handler = "create_thread"
    /\ LET create_result == create_thread_handler(r.key_content, now)
       IN  threads' = IF create_result.ok
                      THEN Append(threads, create_result.val)
                      ELSE threads
    /\ inflight' = Leave(r)
    /\ UNCHANGED <<users, authentication_keys, now, ticks, issued, registered>>

(***************************************************************************)
(* The wall clock advances; Utc::now() never goes back.                    *)
(***************************************************************************)
Tick(d) ==
    /\ now' = now + d
    /\ ticks' = ticks + 1
    /\ UNCHANGED <<users, authentication_keys, threads, inflight, issued, registered>>

\* a request that adds to the store, or the clock, may start within the budget
Next ==
    \/ /\ Ops < MaxOps
       /\ \E username \in Usernames, email \in Emails, password \in Passwords, salt \in Salts :
              Register(username, email, password, salt)
    \/ /\ Ops < MaxOps
       /\ \E username \in Usernames, password \in Passwords : LoginSelect(username, password)
    \/ \E r \in InFlight, authentication_key \in Tokens : LoginInsert(r, authentication_key)
    \/ /\ Ops < MaxOps
       /\ \E handler \in Handlers, header \in {None} \cup {Some(k) : k \in Tokens} :
              Guard(handler, header)
    \/ \E r \in InFlight : GetThreadsBody(r)
    \/ \E r \in InFlight : GetCommentsBody(r)
    \/ \E r \in InFlight : CreateThreadBody(r)
    \/ /\ Ops < MaxOps
       /\ \E d \in Deltas : Tick(d)

Spec == Init /\ [][Next]_vars

(***************************************************************************)
(* The same requests with fewer inputs and a larger budget: two clients    *)
(* register with their own email and one password, log in, and create      *)
(* threads; the token generator draws one string every time; the clock is  *)
(* seen to advance by a session lifetime.                                  *)
(***************************************************************************)
Clients == {<<"alice", "a@x.com">>, <<"bob", "b@x.com">>}

NextAttribution ==
    \/ /\ Ops < MaxOpsAttribution
       /\ \E client \in Clients : Register(client[1], client[2], "pw123", "saltAAAAAA")
    \/ /\ Ops < MaxOpsAttribution
       /\ \E client \in Clients : LoginSelect(client[1], "pw123")
    \/ \E r \in InFlight : LoginInsert(r, "tokA")
    \/ /\ Ops < MaxOpsAttribution
       /\ Guard("create_thread", Some("tokA"))
    \/ \E r \in InFlight : CreateThreadBody(r)
    \/ /\ Ops < MaxOpsAttribution
       /\ Tick(SessionTTL)

SpecAttribution == Init /\ [][NextAttribution]_vars

(***************************************************************************)
(* The requests of Spec on a store that may hand back a password_hash     *)
(* argon2 cannot decode (a damaged or foreign row of the SQLite file): the *)
(* case the Err arm of the match on verify_encoded in login is for.        *)
(***************************************************************************)
\* a password_hash that is not an encoded argon2 hash
MalformedHash == <<"corrupt">>

CorruptCredential(j) ==
    /\ j \in DOMAIN users
    /\ verify_encoded(users[j].password_hash, PasswordList[1]).ok
    /\ users' = [users EXCEPT ![j].password_hash = MalformedHash]
    /\ UNCHANGED <<authentication_keys, threads, now, ticks, inflight, issued, registered>>

NextCorruptStore ==
    \/ Next
    \/ \E j \in DOMAIN users : CorruptCredential(j)

SpecCorruptStore == Init /\ [][NextCorruptStore]_vars

(***************************************************************************)
(* Vocabulary of the properties.                                           *)
(***************************************************************************)
Headers == {None} \cup {Some(k) : k \in Tokens}

\* the username has an identity
HasIdentity(username) == \E j \in DOMAIN users : users[j].username = username

\* the identity a username resolves to
IdentityOf(username) == users[CHOOSE j \in DOMAIN users : users[j].username = username]

\* the identity with an id
HasId(id) == \E j \in DOMAIN users : users[j].unique_id = id
IdentityWithId(id) == users[CHOOSE j \in DOMAIN users : users[j].unique_id = id]

\* the instant a binding expires, and the bindings of a token
ExpiresAt(i) == parse_from_rfc3339(authentication_keys[i].expiration).val
BindingsOf(k) == {i \in DOMAIN authentication_keys : authentication_keys[i].authentication_key = k}

\* the token and the expiration a login returned
ReturnedToken(i) == issued[i].returned[1]
ReturnedExpiration(i) == issued[i].returned[2]

\* the guarded requests that enter flight in a step
NewBodies ==
    {r \in BagToSet(inflight') : r.kind = "body" /\ CopiesIn(r, inflight') > CopiesIn(r, inflight)}

(***************************************************************************)
(* C1. login for an existing identity whose stored credential does not     *)
(* verify against the given password returns an error and adds no binding: *)
(* every stored binding was created by a login whose password verified     *)
(* against the credential of the bound identity.                           *)
(***************************************************************************)
C1_BindingsOnlyFromVerifiedPasswords ==
    \A i \in DOMAIN authentication_keys :
        /\ HasId(authentication_keys[i].user_id)
        /\ verify_encoded(IdentityWithId(authentication_keys[i].user_id).password_hash,
                          issued[i].password) = Ok(TRUE)

(***************************************************************************)
(* C2. The bodies of get_threads, get_comments and create_thread run only  *)
(* in a request whose x-auth-key header authenticate accepted in that      *)
(* request; a missing key or an authenticate result of false yields        *)
(* Unauthorized and the request touches nothing.                           *)
(***************************************************************************)
C2_Step ==
    /\ \A r \in NewBodies :
           authenticate(authentication_keys, r.key_content, now) = Ok(TRUE)
    /\ \A header \in Headers :
           (header = None \/ authenticate(authentication_keys, header[1], now) = Ok(FALSE))
               => /\ from_request(authentication_keys, header, now) = "Unauthorized"
                  /\ \A handler \in Handlers : Guard(handler, header) => UNCHANGED vars
    /\ threads' # threads =>
           \E r \in PendingBodies : r.handler = "create_thread" /\ inflight' = Leave(r)

\* C2: every step keeps the protected bodies behind an accepted x-auth-key
C2_ProtectedBodiesRunOnlyAfterAuthenticate == [][C2_Step]_vars

\* a guarded create_thread has inserted its thread
C2_Witness == threads # <<>>

(***************************************************************************)
(* C3. authenticate(token) returns true if and only if at least one stored *)
(* binding with that token has not expired (now < expires_at) at the time  *)
(* of the call.                                                            *)
(***************************************************************************)
C3_TrueIffSomeBindingNotExpired ==
    \A k \in Tokens :
        authenticate(authentication_keys, k, now)
            = Ok(\E i \in BindingsOf(k) : now < ExpiresAt(i))

(***************************************************************************)
(* C4. Expired is terminal: a binding whose expires_at the clock has       *)
(* reached does not contribute to a true result, in this state and in      *)
(* every later one; a token all of whose bindings have expired is rejected *)
(* with Ok(false); no token is honoured a session lifetime or more after   *)
(* its latest issuance.                                                    *)
(***************************************************************************)
Expired(i) == now >= ExpiresAt(i)

C4_State ==
    /\ \A i \in DOMAIN authentication_keys :
           Expired(i) => ~not_expired_flag(ExpiresAt(i), now)
    /\ \A k \in Tokens :
           /\ (\A i \in BindingsOf(k) : Expired(i))
                  => authenticate(authentication_keys, k, now) = Ok(FALSE)
           /\ authenticate(authentication_keys, k, now) = Ok(TRUE)
                  => \E i \in DOMAIN issued :
                        ReturnedToken(i) = k /\ now < issued[i].at + SessionTTL

C4_Step ==
    \A i \in DOMAIN authentication_keys : Expired(i) => Expired(i)'

\* C4: in every state an expired binding contributes nothing, and no step
\* makes an expired binding valid again
C4_ExpiredIsTerminal == [][C4_State /\ C4_State' /\ C4_Step]_vars

\* a binding has expired and its token is rejected
C4_Witness ==
    \E i \in DOMAIN authentication_keys :
        /\ Expired(i)
        /\ authenticate(authentication_keys, authentication_keys[i].authentication_key, now)
               = Ok(FALSE)

(***************************************************************************)
(* C5. After register(u, e, p) has succeeded, login(u, p) succeeds: it     *)
(* adds exactly one binding (id of u, T, exp) and returns that T and exp,  *)
(* where exp is the time of issuance plus the session lifetime.            *)
(***************************************************************************)
C5_LoginAfterRegisterIssuesBinding ==
    /\ Len(issued) = Len(authentication_keys)
    /\ \A pair \in registered :
           login_matching_uid(users, pair[1], pair[2])
               = Some(to_string(IdentityOf(pair[1]).unique_id))
    /\ \A i \in DOMAIN issued :
           <<issued[i].username, issued[i].password>> \in registered
               => /\ authentication_keys[i].user_id = IdentityOf(issued[i].username).unique_id
                  /\ authentication_keys[i].authentication_key = ReturnedToken(i)
                  /\ authentication_keys[i].expiration = ReturnedExpiration(i)
                  /\ parse_from_rfc3339(ReturnedExpiration(i))
                         = Ok(issued[i].at + SessionDays * 86400 * TicksPerSecond)

\* a login with the registered password has returned
C5_Witness ==
    \E i \in DOMAIN issued : <<issued[i].username, issued[i].password>> \in registered

(***************************************************************************)
(* C6. Immediately after login has returned (T, exp), that is before the   *)
(* clock advances, authenticate(T) returns true, whatever other register,  *)
(* login and authenticate requests ran in between.                         *)
(***************************************************************************)
C6_AuthenticateRightAfterLogin ==
    \A i \in DOMAIN issued :
        issued[i].at = now
            => authenticate(authentication_keys, ReturnedToken(i), now) = Ok(TRUE)

\* a login returned at this instant, after an earlier binding of the same
\* token had expired, and with another request in flight
C6_Witness ==
    \E i, j \in DOMAIN issued :
        /\ issued[i].at = now
        /\ j < i
        /\ ReturnedToken(j) = ReturnedToken(i)
        /\ Expired(j)

(***************************************************************************)
(* C7. For a token that has no binding in the store authenticate returns   *)
(* Ok(false); authenticate(T) = true implies that a login which returned T *)
(* completed its insert earlier.                                           *)
(***************************************************************************)
C7_UnknownTokenIsFalse ==
    \A k \in Tokens :
        /\ BindingsOf(k) = {} => authenticate(authentication_keys, k, now) = Ok(FALSE)
        /\ authenticate(authentication_keys, k, now) = Ok(TRUE)
               => \E i \in DOMAIN issued : ReturnedToken(i) = k /\ issued[i].at <= now

\* the store holds a valid binding of one token and none of another
C7_Witness ==
    \E k, m \in Tokens :
        /\ BindingsOf(k) = {}
        /\ authenticate(authentication_keys, m, now) = Ok(TRUE)

(***************************************************************************)
(* C8. authenticate treats a binding as valid exactly while                *)
(* now < expires_at, at the full resolution of the clock: a binding that   *)
(* expires any positive amount after now makes authenticate return true.   *)
(***************************************************************************)
C8_ValidExactlyWhileBeforeExpiry ==
    \A i \in DOMAIN authentication_keys :
        /\ not_expired_flag(ExpiresAt(i), now) <=> now < ExpiresAt(i)
        /\ now < ExpiresAt(i)
               => authenticate(authentication_keys,
                               authentication_keys[i].authentication_key, now) = Ok(TRUE)

(***************************************************************************)
(* C9. For every token T that login returned for identity id,              *)
(* reverse_key_lookup(T) returns id in every later state.                  *)
(***************************************************************************)
C9_ReverseLookupReturnsTheLoginsIdentity ==
    \A i \in DOMAIN issued :
        LET found == reverse_key_lookup(authentication_keys, ReturnedToken(i))
        IN  /\ found.ok
            /\ IntegerAffinity(found.val) = IdentityOf(issued[i].username).unique_id

(***************************************************************************)
(* C10. Every binding references an identity that exists in users: login   *)
(* for a username that resolves to no identity returns an error and stores *)
(* no binding.                                                             *)
(***************************************************************************)
C10_NoOrphanedBinding ==
    /\ \A i \in DOMAIN authentication_keys : HasId(authentication_keys[i].user_id)
    /\ \A r \in PendingLogins : HasId(IntegerAffinity(r.matching_uid))
    /\ \A username \in Usernames, password \in Passwords :
           ~HasIdentity(username) => login_matching_uid(users, username, password) = None

\* bindings are stored while a username has no identity
C10_Witness ==
    /\ authentication_keys # <<>>
    /\ \E username \in Usernames : ~HasIdentity(username)

(***************************************************************************)
(* C11. Under every interleaving of register requests at most one identity *)
(* exists per username and per email: a register on a username or an email *)
(* that is taken fails at the INSERT, and one on a free username and email *)
(* succeeds, so of the registers racing on one username one succeeds.      *)
(***************************************************************************)
C11_OneIdentityPerUsernameAndEmail ==
    /\ \A i, j \in DOMAIN users :
           i # j => /\ users[i].username # users[j].username
                    /\ users[i].email # users[j].email
    /\ \A username \in Usernames, email \in Emails :
           create_user(users, username, email).ok
               <=> /\ ~HasIdentity(username)
                   /\ \A j \in DOMAIN users : users[j].email # email

\* two identities are stored, and every further register is one on a
\* username that is taken
C11_Witness ==
    /\ Len(users) = 2
    /\ \A username \in Usernames : HasIdentity(username)

(***************************************************************************)
(* C12. register with a username that is in use returns failure:           *)
(* create_user returns Err and the handler answers success = false without *)
(* panicking. users and authentication_keys are left unchanged: the first  *)
(* identity keeps its id and its credential and its login still works.     *)
(***************************************************************************)
C12_State ==
    \A username \in Usernames, email \in Emails :
        HasIdentity(username)
            => /\ create_user(users, username, email) = Err
               /\ register_handler(users, username, email) = Ok(FALSE)

C12_Step ==
    \A username \in Usernames :
        HasIdentity(username)
            => /\ \A email \in Emails, password \in Passwords, salt \in Salts :
                      Register(username, email, password, salt) => UNCHANGED vars
               /\ HasIdentity(username)'
               /\ IdentityOf(username)' = IdentityOf(username)
               /\ \A pair \in registered :
                      pair[1] = username
                          => login_matching_uid(users', pair[1], pair[2])
                                 = Some(to_string(IdentityOf(username).unique_id))

\* C12: a register on a taken username fails in every state and changes
\* nothing in any step; no step changes the identity a username has
C12_RegisterOnTakenUsernameFails == [][C12_State /\ C12_State' /\ C12_Step]_vars

\* an identity has logged in, and a register with its username and an
\* email that is free is refused
C12_Witness ==
    \E i \in DOMAIN issued, email \in Emails :
        /\ <<issued[i].username, issued[i].password>> \in registered
        /\ \A j \in DOMAIN users : users[j].email # email
        /\ register_handler(users, issued[i].username, email) = Ok(FALSE)

(***************************************************************************)
(* C13. No request built from external input (a missing, unknown or        *)
(* expired token, an incorrect password, a username with no identity)      *)
(* drives the app logic or a handler into a panic: the guard answers       *)
(* Success or Unauthorized, and the handlers register and login return.    *)
(***************************************************************************)
C13_NoExternalInputPanics ==
    /\ \A header \in Headers :
           from_request(authentication_keys, header, now) \in {"Success", "Unauthorized"}
    /\ \A username \in Usernames, email \in Emails :
           register_handler(users, username, email) # Panic
    /\ \A username \in Usernames, password \in Passwords :
           login_handler(users, username, password) # Panic

(***************************************************************************)
(* C14. A login does not invalidate earlier tokens: a token that           *)
(* authenticate accepts on the store before a step, at the clock reading   *)
(* after it, is accepted on the store after the step, also when the step   *)
(* is the INSERT of one of several logins in flight. One identity may hold *)
(* several valid tokens at once.                                           *)
(***************************************************************************)
C14_Step ==
    \A k \in Tokens :
        authenticate(authentication_keys, k, now') = Ok(TRUE)
            => authenticate(authentication_keys', k, now') = Ok(TRUE)

\* C14: no step takes away a token that has not expired
C14_LoginKeepsEarlierTokens == [][C14_Step]_vars

\* one identity holds two bindings with different tokens, both accepted
C14_Witness ==
    \E i, j \in DOMAIN authentication_keys :
        /\ i < j
        /\ authentication_keys[i].user_id = authentication_keys[j].user_id
        /\ authentication_keys[i].authentication_key # authentication_keys[j].authentication_key
        /\ authenticate(authentication_keys, authentication_keys[i].authentication_key, now)
               = Ok(TRUE)
        /\ authenticate(authentication_keys, authentication_keys[j].authentication_key, now)
               = Ok(TRUE)

(***************************************************************************)
(* C15. After any sequence of logins no two bindings carry the same token  *)
(* string, and two logins by one identity return two different tokens.     *)
(***************************************************************************)
C15_TokensAreDistinct ==
    /\ \A i, j \in DOMAIN authentication_keys :
           i # j => authentication_keys[i].authentication_key
                        # authentication_keys[j].authentication_key
    /\ \A i, j \in DOMAIN issued :
           (i # j /\ issued[i].username = issued[j].username)
               => ReturnedToken(i) # ReturnedToken(j)

(***************************************************************************)
(* C16. reverse_key_lookup(T) does not look at the expiration: it returns  *)
(* the identity of a binding of T whenever T has a binding, expired or     *)
(* not, and returns Err, without a panic inside the app logic, when T has  *)
(* none.                                                                   *)
(***************************************************************************)
C16_ReverseLookupIgnoresExpiration ==
    \A k \in Tokens :
        LET found == reverse_key_lookup(authentication_keys, k)
        IN  IF BindingsOf(k) = {}
            THEN found = Err
            ELSE /\ found.ok
                 /\ \E i \in BindingsOf(k) :
                        IntegerAffinity(found.val) = authentication_keys[i].user_id

\* reverse_key_lookup answers for a token all of whose bindings have
\* expired, and errs for a token that has no binding
C16_Witness ==
    \E k, m \in Tokens :
        /\ BindingsOf(k) # {}
        /\ \A i \in BindingsOf(k) : Expired(i)
        /\ reverse_key_lookup(authentication_keys, k).ok
        /\ reverse_key_lookup(authentication_keys, m) = Err

(***************************************************************************)
(* C17. No field of any row of users or authentication_keys holds a        *)
(* plaintext password: of a password only the argon2 hash under the salt   *)
(* of the row is stored. (The TEXT fields are compared with the passwords  *)
(* that requests carry; the other fields are rowids, ids and timestamps.)  *)
(***************************************************************************)
C17_NoPlaintextPasswordStored ==
    /\ \A j \in DOMAIN users :
           /\ users[j].username \notin Passwords
           /\ users[j].email \notin Passwords
           /\ users[j].password_salt \notin Passwords
           /\ users[j].password_salt \in Salts
           /\ \E password \in Passwords :
                  users[j].password_hash = hash_encoded(password, users[j].password_salt)
           /\ \A n \in 1..2 : users[j].password_hash[n] \notin Passwords
           /\ users[j].unique_id \in Nat
           /\ parse_from_rfc3339(users[j].registration_datetime).ok
    /\ \A i \in DOMAIN authentication_keys :
           /\ authentication_keys[i].authentication_key \in Tokens
           /\ authentication_keys[i].authentication_key \notin Passwords
           /\ authentication_keys[i].user_id \in Nat
           /\ authentication_keys[i].unique_id \in Nat
           /\ parse_from_rfc3339(authentication_keys[i].expiration).ok

\* a registered identity has logged in with its password: both tables hold
\* a row made from a request that carried the password
C17_Witness ==
    \E j \in DOMAIN users, i \in DOMAIN authentication_keys :
        /\ authentication_keys[i].user_id = users[j].unique_id
        /\ <<users[j].username, issued[i].password>> \in registered
        /\ users[j].password_hash = hash_encoded(issued[i].password, users[j].password_salt)

(***************************************************************************)
(* C18. Existing identities and bindings are immutable and never deleted:  *)
(* the guard with authenticate, the handlers with reverse_key_lookup,      *)
(* get_username_from_uid and get_uid_from_username leave users and         *)
(* authentication_keys unchanged, a successful login only appends one      *)
(* binding, a successful create_user only appends one identity, and no id  *)
(* is used twice.                                                          *)
(***************************************************************************)
\* table s is the beginning of table t, which has at most one row more
AppendsAtMostOne(s, t) ==
    /\ Len(s) <= Len(t)
    /\ Len(t) <= Len(s) + 1
    /\ \A n \in DOMAIN s : t[n] = s[n]

\* the ids of a table are pairwise different
IdsDistinct(table) ==
    \A m, n \in DOMAIN table : m # n => table[m].unique_id # table[n].unique_id

C18_Step ==
    /\ AppendsAtMostOne(users, users')
    /\ AppendsAtMostOne(authentication_keys, authentication_keys')
    /\ IdsDistinct(users) /\ IdsDistinct(users')
    /\ IdsDistinct(authentication_keys) /\ IdsDistinct(authentication_keys')
    /\ users' # users
           => /\ authentication_keys' = authentication_keys
              /\ \E username \in Usernames, email \in Emails,
                    password \in Passwords, salt \in Salts :
                     /\ create_user(users, username, email).ok
                     /\ Register(username, email, password, salt)
    /\ authentication_keys' # authentication_keys
           => /\ users' = users
              /\ \E r \in PendingLogins, authentication_key \in Tokens :
                     LoginInsert(r, authentication_key)
    /\ \A handler \in Handlers, header \in Headers :
           Guard(handler, header) => UNCHANGED <<users, authentication_keys>>
    /\ \A r \in PendingBodies :
           (GetThreadsBody(r) \/ GetCommentsBody(r) \/ CreateThreadBody(r))
               => UNCHANGED <<users, authentication_keys>>

\* C18: every step keeps the stored identities and bindings as they are
C18_RowsAreImmutable == [][C18_Step]_vars

\* two identities and two bindings are stored
C18_Witness == Len(users) = 2 /\ Len(authentication_keys) = 2

(***************************************************************************)
(* C19. Whenever the handler create_thread inserts a thread, its           *)
(* creator_uid is an identity that owns a binding of the presented token   *)
(* which was stored and not expired when the guard authenticated the       *)
(* token, also when the token has several bindings.                        *)
(***************************************************************************)
C19_Step ==
    \A r \in PendingBodies :
        (r.handler = "create_thread" /\ CreateThreadBody(r) /\ threads' # threads)
            => \E i \in BindingsOf(r.key_content) :
                   /\ authentication_keys[i].user_id = threads'[Len(threads')].creator_uid
                   /\ HasId(authentication_keys[i].user_id)
                   /\ issued[i].at <= r.authenticated_at
                   /\ r.authenticated_at < ExpiresAt(i)

\* C19: every thread is attributed to an owner of a binding that was valid
\* at the guard
C19_CreatorOwnsValidBinding == [][C19_Step]_vars

(***************************************************************************)
(* C20. When the verification of the stored credential itself fails (the   *)
(* hash is malformed), login issues no token and surfaces a failure that   *)
(* differs from its outcome for a wrong password and from its outcome for  *)
(* an unknown username.                                                    *)
(***************************************************************************)
\* the stored credential of row j does not decode
Malformed(j) == ~verify_encoded(users[j].password_hash, PasswordList[1]).ok

\* what the client of POST /login gets: the result of app_logic login and
\* the outcome of the handler
LoginOutcome(username, password) ==
    <<login(users, username, password), login_handler(users, username, password)>>

C20_MalformedHashFailsDistinctly ==
    \A j \in DOMAIN users, password \in Passwords :
        Malformed(j)
            => /\ ~login(users, users[j].username, password).ok
               /\ \A username \in Usernames :
                      ~HasIdentity(username)
                          => LoginOutcome(users[j].username, password)
                                 # LoginOutcome(username, password)
               /\ \A i \in DOMAIN users, wrong \in Passwords :
                      verify_encoded(users[i].password_hash, wrong) = Ok(FALSE)
                          => LoginOutcome(users[j].username, password)
                                 # LoginOutcome(users[i].username, wrong)

(***************************************************************************)
(* C21. For every identity id in users,                                    *)
(* get_uid_from_username(get_username_from_uid(id)) = id, so the path of   *)
(* create_thread (token -> uid -> username -> uid) stores as creator_uid   *)
(* the id that reverse_key_lookup returned. The uid travels as decimal     *)
(* text and is compared and stored as an INTEGER.                          *)
(***************************************************************************)
\* to_string and the INTEGER affinity are inverse on the ids up to MaxUid (a
\* fact about the two conversions, evaluated where the store is empty)
C21_State ==
    /\ users = <<>> => \A n \in 0..MaxUid : IntegerAffinity(to_string(n)) = n
    /\ \A j \in DOMAIN users :
           LET id == to_string(users[j].unique_id)
               username == get_username_from_uid(users, id)
           IN  /\ username = Ok(users[j].username)
               /\ get_uid_from_username(users, username.val) = Ok(id)

C21_Step ==
    \A r \in PendingBodies :
        (r.handler = "create_thread" /\ CreateThreadBody(r) /\ inflight' # inflight)
            => LET unique_user_id == reverse_key_lookup(authentication_keys, r.key_content)
               IN  /\ unique_user_id.ok
                   /\ threads' = Append(threads, threads'[Len(threads')])
                   /\ threads'[Len(threads')].creator_uid
                          = IntegerAffinity(unique_user_id.val)
                   /\ HasId(threads'[Len(threads')].creator_uid)

\* C21: the two lookups are inverse on the stored ids in every state, and
\* every step of create_thread stores the id reverse_key_lookup returned
C21_UidUsernameRoundTrip == [][C21_State /\ C21_State' /\ C21_Step]_vars

\* a thread is stored for the identity of the second row of users
C21_Witness ==
    \E n \in DOMAIN threads :
        /\ threads[n].creator_uid = 2
        /\ get_username_from_uid(users, to_string(2)).ok

(***************************************************************************)
(* C22. In every state reachable through register and login the stored     *)
(* expiration of each binding is a well-formed RFC 3339 timestamp, the one *)
(* login wrote and returned, so authenticate does not reach its panic on   *)
(* an unparsable expiration for any presented token.                       *)
(***************************************************************************)
C22_StoredExpirationsParse ==
    /\ \A i \in DOMAIN authentication_keys :
           /\ parse_from_rfc3339(authentication_keys[i].expiration).ok
           /\ authentication_keys[i].expiration = ReturnedExpiration(i)
           /\ ExpiresAt(i) = expiration_date(issued[i].at)
           /\ to_rfc3339(ExpiresAt(i)) = authentication_keys[i].expiration
    /\ \A k \in Tokens : authenticate(authentication_keys, k, now).ok
    /\ \A header \in Headers :
           from_request(authentication_keys, header, now) \in {"Success", "Unauthorized"}

\* two bindings are stored, one with a fraction of a second in its
\* expiration, and authenticate has rows to parse for a presented token
C22_Witness ==
    \E i, j \in DOMAIN authentication_keys :
        /\ authentication_keys[i].expiration[2] = 0
        /\ authentication_keys[j].expiration[2] # 0
        /\ authentication_keys[i].authentication_key = authentication_keys[j].authentication_key

====
